---- MODULE Spec2Model ----
(***************************************************************************)
(* Model of the people-detector sensor component                           *)
(* (src/src/models/people_detector.py, class PeopleDetector).              *)
(*                                                                         *)
(* Confidence values are floats in the source; here they are integers in   *)
(* tenths (0.8 is 8, the interval [0,1] is 0..10), so that comparison and  *)
(* equality are the exact ones of the source on the values drawn.          *)
(* Strings that the code transforms (detection class labels, lower()) are  *)
(* sequences of character codes; strings that the code only copies and     *)
(* compares (resource names, messages) are TLA+ strings.                   *)
(***************************************************************************)
EXTENDS Integers, Sequences, FiniteSets, TLC

VARIABLES
    camera_name,              \* self.camera_name
    vision_service,           \* self.vision_service
    confidence_value,         \* self.confidence_value (tenths)
    vision_service_instance,  \* self.vision_service_instance (a handle or None)
    camera_instance,          \* self.camera_instance (a handle or None)
    inflight,                 \* the get_readings coroutine suspended at its await
    result,                   \* what the most recent invocation gave its caller
    failed,                   \* an earlier get_readings request raised
    vconfig,                  \* the configuration last given to validate_config
    vresult                   \* what validate_config returned or raised for it

self == <<camera_name, vision_service, confidence_value,
          vision_service_instance, camera_instance>>

vars == <<camera_name, vision_service, confidence_value,
          vision_service_instance, camera_instance,
          inflight, result, failed, vconfig, vresult>>

(***************************************************************************)
(* Bounds of the model.                                                    *)
(***************************************************************************)
MaxDets == 2        \* longest detection list the vision service returns

(***************************************************************************)
(* Program constants.                                                      *)
(***************************************************************************)
DefaultConfidence == 8
DetectTimeout == 5

(***************************************************************************)
(* Configuration attribute values: a protobuf Value is one of several      *)
(* kinds; an attribute may also be missing from the fields map.            *)
(***************************************************************************)
Names == {"cam1", "vis1"}

Absent == [kind |-> "absent", str |-> "", num |-> 0]
StringValue(s) == [kind |-> "string", str |-> s, num |-> 0]
NumberValue(n) == [kind |-> "number", str |-> "", num |-> n]
BoolValue == [kind |-> "bool", str |-> "", num |-> 0]

\* confidence_value numbers tried: below, on and inside, on and above [0,1].
Numbers == {-1, 0, 6, 8, 10, 11}

RequiredAttr == {Absent, BoolValue, NumberValue(6)} \cup {StringValue(s) : s \in Names}
OptionalAttr == {Absent, StringValue("cam1"), BoolValue} \cup {NumberValue(n) : n \in Numbers}

RawConfigs == [camera_name : RequiredAttr, vision_service : RequiredAttr,
               confidence_value : OptionalAttr]

\* "field in fields"
InFields(f) == f.kind # "absent"
\* fields[x].HasField("string_value") / HasField("number_value")
HasStringValue(f) == f.kind = "string"
HasNumberValue(f) == f.kind = "number"
\* fields[x].string_value / number_value: the default of the type when the
\* value is of another kind
string_value(f) == IF f.kind = "string" THEN f.str ELSE ""
number_value(f) == IF f.kind = "number" THEN f.num ELSE 0

(***************************************************************************)
(* validate_config                                                         *)
(***************************************************************************)
Deps(d) == [kind |-> "deps", err |-> "", deps |-> d]
ValueError(msg) == [kind |-> "raise", err |-> msg, deps |-> <<>>]
NotValidated == [kind |-> "none", err |-> "", deps |-> <<>>]

required_fields == <<"camera_name", "vision_service">>

MissingMsg(field) ==
    IF field = "camera_name" THEN "missing required camera_name attribute"
    ELSE "missing required vision_service attribute"
NotStringMsg(field) ==
    IF field = "camera_name" THEN "camera_name must be a string"
    ELSE "vision_service must be a string"

\* The optional-field check and the return, lines 105-120.
CheckOptionalSwapped(config) ==
    IF InFields(config.confidence_value)
         /\ ~HasNumberValue(config.confidence_value)
    THEN ValueError("confidence_value must be a float")
    ELSE IF InFields(config.confidence_value)
              /\ ~(0 <= number_value(config.confidence_value)
                   /\ number_value(config.confidence_value) <= 10)
    THEN ValueError("confidence_value must be between 0 and 1")
    ELSE Deps(<<string_value(config.camera_name),
                string_value(config.vision_service)>>)

CheckOptional(config) ==
    IF InFields(config.confidence_value)
         /\ ~HasNumberValue(config.confidence_value)
    THEN ValueError("confidence_value must be a float")
    ELSE IF InFields(config.confidence_value)
              /\ ~(0 <= number_value(config.confidence_value)
                   /\ number_value(config.confidence_value) <= 10)
    THEN ValueError("confidence_value must be between 0 and 1")
    ELSE Deps(<<string_value(config.vision_service),
                string_value(config.camera_name)>>)

\* The loop over required_fields from index i on, lines 96-102: the first
\* field that is missing or not a string raises.
RECURSIVE CheckRequired(_, _)
CheckRequired(config, i) ==
    IF i > Len(required_fields) THEN CheckOptional(config)
    ELSE LET field == required_fields[i]
             f == config[field]
         IN  IF ~InFields(f) THEN ValueError(MissingMsg(field))
             ELSE IF ~HasStringValue(f) THEN ValueError(NotStringMsg(field))
             ELSE CheckRequired(config, i + 1)

\* A validator that checks the presence of every required field before
\* the type of any.
validate_config_presence_first(config) ==
    IF ~InFields(config.camera_name) THEN ValueError(MissingMsg("camera_name"))
    ELSE IF ~InFields(config.vision_service)
    THEN ValueError(MissingMsg("vision_service"))
    ELSE CheckRequired(config, 1)

validate_config(config) == CheckRequired(config, 1)

\* The configurations the host passes on to new/reconfigure: it validates first.
ValidConfigs == {c \in RawConfigs : validate_config(c).kind = "deps"}

(***************************************************************************)
(* Dependencies: the mapping from resource name to resolved resource that  *)
(* the host hands to new/reconfigure.  A resource name carries the API it  *)
(* was built for (Vision.get_resource_name, Camera.get_resource_name) and  *)
(* the configured name; the handle found under a resource name is the      *)
(* resource of that name.                                                  *)
(***************************************************************************)
ResourceName(api, name) == [api |-> api, name |-> name]
ResourceNames == {ResourceName(a, n) : a \in {"vision", "camera"}, n \in Names}
None == [api |-> "None", name |-> ""]
Handle(rn) == rn
\* The mappings tried: every resource resolved, one missing, none resolved.
DepDomains == {ResourceNames, {}} \cup {ResourceNames \ {rn} : rn \in ResourceNames}
DepSets == {[rn \in D |-> Handle(rn)] : D \in DepDomains}

\* The instance's attributes as one value.
State(cn, vs, cv, vsi, ci) ==
    [camera_name |-> cn, vision_service |-> vs, confidence_value |-> cv,
     vision_service_instance |-> vsi, camera_instance |-> ci]
Held == State(camera_name, vision_service, confidence_value,
              vision_service_instance, camera_instance)

(***************************************************************************)
(* reconfigure, lines 139-160, as a function of the held attributes: the   *)
(* attributes after the call and the exception it raised ("" for none).    *)
(* The three configuration values are assigned before the first lookup,    *)
(* the vision handle before the second; a lookup of a resource name the    *)
(* mapping lacks raises KeyError and ends the call there.                  *)
(***************************************************************************)
\* line 150 with the test made on the number instead of the field.
ResolveConfidenceFalsy(confidence_field) ==
    IF InFields(confidence_field) /\ number_value(confidence_field) # 0
    THEN number_value(confidence_field)
    ELSE DefaultConfidence

\* lines 149-150: confidence_field is the Value message, or None when absent.
ResolveConfidence(confidence_field) ==
    IF InFields(confidence_field) THEN number_value(confidence_field)
    ELSE DefaultConfidence

\* reconfigure with the camera lookup made under the name held before
\* the call (the lookup placed ahead of the assignment of camera_name).
reconfigure_stale_lookup(held, config, dependencies) ==
    LET cn  == string_value(config.camera_name)
        vs  == string_value(config.vision_service)
        cv  == ResolveConfidence(config.confidence_value)
        vis == ResourceName("vision", vs)
        cam == ResourceName("camera", held.camera_name)
    IN  IF vis \notin DOMAIN dependencies
        THEN [self |-> State(cn, vs, cv, held.vision_service_instance,
                             held.camera_instance),
              raised |-> "KeyError"]
        ELSE IF cam \notin DOMAIN dependencies
        THEN [self |-> State(cn, vs, cv, dependencies[vis], held.camera_instance),
              raised |-> "KeyError"]
        ELSE [self |-> State(cn, vs, cv, dependencies[vis], dependencies[cam]),
              raised |-> ""]

reconfigure(held, config, dependencies) ==
    LET cn  == string_value(config.camera_name)
        vs  == string_value(config.vision_service)
        cv  == ResolveConfidence(config.confidence_value)
        vis == ResourceName("vision", vs)
        cam == ResourceName("camera", cn)
    IN  IF vis \notin DOMAIN dependencies
        THEN [self |-> State(cn, vs, cv, held.vision_service_instance,
                             held.camera_instance),
              raised |-> "KeyError"]
        ELSE IF cam \notin DOMAIN dependencies
        THEN [self |-> State(cn, vs, cv, dependencies[vis], held.camera_instance),
              raised |-> "KeyError"]
        ELSE [self |-> State(cn, vs, cv, dependencies[vis], dependencies[cam]),
              raised |-> ""]

(***************************************************************************)
(* Detections returned by the vision service: class_name and confidence.   *)
(***************************************************************************)
\* "person", "Person", "car" as character codes
person == <<112, 101, 114, 115, 111, 110>>
Person == <<80, 101, 114, 115, 111, 110>>
car == <<99, 97, 114>>

Detection(cls, conf) == [class_name |-> cls, confidence |-> conf]
Detections == {Detection(Person, 9), Detection(person, 5),
               Detection(person, 8), Detection(car, 9)}
DetLists == UNION {[1..n -> Detections] : n \in 0..MaxDets}

\* str.lower() on the characters drawn (ASCII): A-Z map to a-z.
LowerChar(c) == IF c >= 65 /\ c <= 90 THEN c + 32 ELSE c
lower(s) == [i \in 1..Len(s) |-> LowerChar(s[i])]

\* line 199 with the comparison strict.
IsPersonStrict(d, threshold) ==
    lower(d.class_name) = person /\ d.confidence > threshold

\* line 199: d.class_name.lower() == "person" and d.confidence >= self.confidence_value
IsPerson(d, threshold) ==
    lower(d.class_name) = person /\ d.confidence >= threshold

\* lines 198-200: any(... for d in detections), left to right.
RECURSIVE person_detected(_, _)
person_detected(detections, threshold) ==
    IF detections = <<>> THEN FALSE
    ELSE IF IsPerson(Head(detections), threshold) THEN TRUE
    ELSE person_detected(Tail(detections), threshold)

(***************************************************************************)
(* What the vision service answers to get_detections_from_camera: a list   *)
(* of detections, or an exception thrown into the awaiting coroutine.      *)
(***************************************************************************)
Faults == {"TimeoutError", "GRPCError", "CancelledError"}
Responses == {[dets |-> d, fault |-> ""] : d \in DetLists}
                \cup {[dets |-> <<>>, fault |-> f] : f \in Faults}

(***************************************************************************)
(* What an invocation gives its caller.  reading is the returned mapping   *)
(* as a set of key/value pairs; dets and fault record the collaborator's   *)
(* answer the invocation consumed, cfg the configuration it was given.     *)
(***************************************************************************)
NoConfig == [camera_name |-> Absent, vision_service |-> Absent,
             confidence_value |-> Absent]
Outcome(op, kind, err, reading, dets, fault, cfg) ==
    [op |-> op, kind |-> kind, err |-> err, reading |-> reading,
     dets |-> dets, fault |-> fault, cfg |-> cfg]
Returned(op, cfg) == Outcome(op, "ok", "", {}, <<>>, "", cfg)
Raised(op, err, fault, cfg) == Outcome(op, "raise", err, {}, <<>>, fault, cfg)
Awaiting == Outcome("get_readings", "awaiting", "", {}, <<>>, "", NoConfig)
Reading(v, dets) ==
    Outcome("get_readings", "reading", "", {<<"person_detected", v>>}, dets, "",
            NoConfig)

NotInFlight == [pending |-> FALSE, camera_name |-> "", handle |-> None,
                timeout |-> 0, confidence_at_call |-> 0]

(***************************************************************************)
(* Operations of an instance.  The host calls them one at a time, but      *)
(* get_readings suspends at its await (line 191) and any other operation   *)
(* may run before it resumes.                                              *)
(***************************************************************************)
SetHeld(st) ==
    /\ camera_name' = st.camera_name
    /\ vision_service' = st.vision_service
    /\ confidence_value' = st.confidence_value
    /\ vision_service_instance' = st.vision_service_instance
    /\ camera_instance' = st.camera_instance

\* reconfigure(config, dependencies), lines 122-160
Reconfigure(config, dependencies) ==
    LET r == reconfigure(Held, config, dependencies)
    IN  /\ SetHeld(r.self)
        /\ result' = IF r.raised = "" THEN Returned("reconfigure", config)
                     ELSE Raised("reconfigure", r.raised, "", config)
        /\ UNCHANGED <<inflight, failed, vconfig, vresult>>

\* get_readings up to its await, lines 185-193: the attribute lookups on
\* self and the call are made, then the coroutine suspends.  With the
\* vision handle None the attribute access raises and nothing is called.
GetReadingsCall ==
    /\ ~inflight.pending
    /\ IF vision_service_instance = None
       THEN /\ result' = Raised("get_readings", "AttributeError", "", NoConfig)
            /\ failed' = TRUE
            /\ UNCHANGED inflight
       ELSE /\ inflight' = [pending |-> TRUE,
                            camera_name |-> camera_name,
                            handle |-> vision_service_instance,
                            timeout |-> DetectTimeout,
                            confidence_at_call |-> confidence_value]
            /\ result' = Awaiting
            /\ UNCHANGED failed
    /\ UNCHANGED <<self, vconfig, vresult>>

\* get_readings returning the default reading when the call fails.
GetReadingsReturnSwallow(resp) ==
    /\ inflight.pending
    /\ IF resp.fault # ""
       THEN /\ result' = [Reading(0, <<>>) EXCEPT !.fault = resp.fault]
            /\ failed' = TRUE
       ELSE /\ result' = Reading(IF person_detected(resp.dets, confidence_value)
                                 THEN 1 ELSE 0, resp.dets)
            /\ UNCHANGED failed
    /\ inflight' = NotInFlight
    /\ UNCHANGED <<self, vconfig, vresult>>

\* get_readings keeping the error of an earlier request.
GetReadingsReturnLatched(resp) ==
    /\ inflight.pending
    /\ IF resp.fault # ""
       THEN /\ result' = Raised("get_readings", resp.fault, resp.fault, NoConfig)
            /\ failed' = TRUE
       ELSE /\ result' = IF failed
                         THEN Raised("get_readings", "RuntimeError", "", NoConfig)
                         ELSE Reading(IF person_detected(resp.dets, confidence_value)
                                      THEN 1 ELSE 0, resp.dets)
            /\ UNCHANGED failed
    /\ inflight' = NotInFlight
    /\ UNCHANGED <<self, vconfig, vresult>>

\* get_readings from the resumption of its await, lines 191-213: the
\* exception is logged and re-raised (a CancelledError passes the handler
\* untouched), the detections are reduced with the threshold held now.
GetReadingsReturn(resp) ==
    /\ inflight.pending
    /\ IF resp.fault # ""
       THEN /\ result' = Raised("get_readings", resp.fault, resp.fault, NoConfig)
            /\ failed' = TRUE
       ELSE /\ result' = Reading(IF person_detected(resp.dets, confidence_value)
                                 THEN 1 ELSE 0, resp.dets)
            /\ UNCHANGED failed
    /\ inflight' = NotInFlight
    /\ UNCHANGED <<self, vconfig, vresult>>

\* do_command, lines 230-231
DoCommand ==
    /\ result' = Raised("do_command", "NotImplementedError", "", NoConfig)
    /\ UNCHANGED <<self, inflight, failed, vconfig, vresult>>

\* get_geometries, lines 244-245
GetGeometries ==
    /\ result' = Raised("get_geometries", "NotImplementedError", "", NoConfig)
    /\ UNCHANGED <<self, inflight, failed, vconfig, vresult>>

\* cleanup, lines 257-262
Cleanup ==
    /\ camera_instance' = None
    /\ vision_service_instance' = None
    /\ result' = Returned("cleanup", NoConfig)
    /\ UNCHANGED <<camera_name, vision_service, confidence_value,
                   inflight, failed, vconfig, vresult>>

\* validate_config(config), a classmethod: it has no instance to touch.
ValidateConfig(config) ==
    /\ vconfig' = config
    /\ vresult' = validate_config(config)
    /\ UNCHANGED <<self, inflight, result, failed>>

\* The dependency sets under which new(config, dependencies) succeeds.
Resolvable(config, dependencies) ==
    /\ ResourceName("vision", string_value(config.vision_service))
          \in DOMAIN dependencies
    /\ ResourceName("camera", string_value(config.camera_name))
          \in DOMAIN dependencies

\* new(config, dependencies), lines 52-65: a fresh instance, reconfigured
\* once; the instance exists only if that call did not raise.
Init ==
    /\ \E config \in ValidConfigs, dependencies \in DepSets :
          /\ Resolvable(config, dependencies)
          /\ LET st == reconfigure(State("", "", DefaultConfidence, None, None),
                                   config, dependencies).self
             IN  /\ camera_name = st.camera_name
                 /\ vision_service = st.vision_service
                 /\ confidence_value = st.confidence_value
                 /\ vision_service_instance = st.vision_service_instance
                 /\ camera_instance = st.camera_instance
    /\ inflight = NotInFlight
    /\ result = Returned("new", NoConfig)
    /\ failed = FALSE
    /\ vconfig = NoConfig
    /\ vresult = NotValidated

Next ==
    \/ \E config \in ValidConfigs, dependencies \in DepSets :
          Reconfigure(config, dependencies)
    \/ GetReadingsCall
    \/ \E resp \in Responses : GetReadingsReturn(resp)
    \/ DoCommand
    \/ GetGeometries
    \/ Cleanup

Spec == Init /\ [][Next]_vars

\* The validator on its own: the host calls it on any attribute map.
NextValidate == \E config \in RawConfigs : ValidateConfig(config)

SpecValidate == Init /\ [][NextValidate]_vars

(***************************************************************************)
(* The properties checked.  The definitions below state what the           *)
(* specification of the component says, in its own terms; none of them is  *)
(* used by the model above.                                                *)
(***************************************************************************)
\* A class label equal to "person" ignoring case.
IsPersonLabel(s) ==
    /\ Len(s) = Len(person)
    /\ \A i \in 1..Len(s) : s[i] = person[i] \/ s[i] = person[i] - 32

\* Some detection is a person at or above the threshold.
PersonPresent(dets, threshold) ==
    \E i \in 1..Len(dets) :
        IsPersonLabel(dets[i].class_name) /\ dets[i].confidence >= threshold

ReadingOf(dets, threshold) ==
    {<<"person_detected", IF PersonPresent(dets, threshold) THEN 1 ELSE 0>>}

\* C1: every reading get_readings returns is exactly {"person_detected": v},
\* v = 1 if some detection of the list it consumed is labelled "person"
\* (ignoring case) with confidence >= the threshold held, v = 0 otherwise,
\* the empty list included.
C1_ReadingIsReduction ==
    (result.op = "get_readings" /\ result.kind = "reading")
        => result.reading = ReadingOf(result.dets, confidence_value)

\* C1 witness: a reading of 1 decided by the second detection of the list,
\* whose confidence equals the threshold.
C1_Witness ==
    /\ result.op = "get_readings" /\ result.kind = "reading"
    /\ result.reading = {<<"person_detected", 1>>}
    /\ Len(result.dets) = 2
    /\ result.dets[1].class_name = car
    /\ result.dets[2].confidence = confidence_value

\* C2: when the vision call of a request fails, the request raises that
\* same failure and gives its caller no reading.
C2_FailurePropagates ==
    (result.op = "get_readings" /\ result.fault # "")
        => /\ result.kind = "raise"
           /\ result.err = result.fault
           /\ result.reading = {}

\* C2 witness: a request whose vision call timed out has raised.
C2_Witness ==
    /\ result.op = "get_readings"
    /\ result.fault = "TimeoutError"
    /\ result.kind = "raise"

\* C3: a reconfigure that fails on a missing dependency raises the
\* resolution error and leaves all five held values as they were.
C3_FailedReconfigureKeepsState ==
    [][(result'.op = "reconfigure" /\ result'.kind = "raise")
          => (result'.err = "KeyError" /\ Held' = Held)]_vars

\* C4: a reading whose request was suspended while a reconfigure ran (and
\* succeeded) is the reading of one configuration: of the one held when the
\* vision call was made, or of the one held when it returns (then the call
\* went to that one's camera name and vision handle).
C4_ReadingFromOneConfiguration ==
    [][(inflight.pending /\ result.op = "reconfigure" /\ result.kind = "ok"
          /\ ~inflight'.pending /\ result'.kind = "reading")
          => \/ result'.reading
                    = ReadingOf(result'.dets, inflight.confidence_at_call)
             \/ /\ inflight.camera_name = camera_name
                /\ inflight.handle = vision_service_instance
                /\ result'.reading = ReadingOf(result'.dets, confidence_value)]_vars

MissingFieldErrors == {"missing required camera_name attribute",
                       "missing required vision_service attribute"}

\* C5, as claimed: whenever camera_name or vision_service is absent,
\* validate_config fails with the missing-field error and gives no list.
C5_MissingFieldAlways ==
    (vresult.kind # "none"
       /\ (vconfig.camera_name.kind = "absent"
             \/ vconfig.vision_service.kind = "absent"))
        => /\ vresult.kind = "raise"
           /\ vresult.err \in MissingFieldErrors
           /\ vresult.deps = <<>>

\* C5, amended: whenever camera_name or vision_service is absent,
\* validate_config fails and gives no list; the failure is the missing-field
\* error of camera_name if that is absent, the type error of camera_name if
\* that is present but no string, and the missing-field error of
\* vision_service otherwise.
C5_MissingFieldFirstFailure ==
    (vresult.kind # "none"
       /\ (vconfig.camera_name.kind = "absent"
             \/ vconfig.vision_service.kind = "absent"))
        => /\ vresult.kind = "raise"
           /\ vresult.deps = <<>>
           /\ vresult.err =
                 IF vconfig.camera_name.kind = "absent"
                 THEN "missing required camera_name attribute"
                 ELSE IF vconfig.camera_name.kind # "string"
                 THEN "camera_name must be a string"
                 ELSE "missing required vision_service attribute"

\* C5 witness: vision_service absent, camera_name a number: the type error.
C5_Witness ==
    /\ vconfig.vision_service.kind = "absent"
    /\ vconfig.camera_name.kind = "number"
    /\ vresult.kind = "raise"
    /\ vresult.err = "camera_name must be a string"

WellFormed(c) ==
    /\ c.camera_name.kind = "string"
    /\ c.vision_service.kind = "string"
    /\ \/ c.confidence_value.kind = "absent"
       \/ /\ c.confidence_value.kind = "number"
          /\ c.confidence_value.num \in 0..10

\* C6: validate_config succeeds exactly on the configurations whose required
\* fields are strings and whose confidence_value is absent or a number in
\* [0,1], and then returns the two names, vision_service first.
C6_ValidateExactly ==
    vresult.kind # "none"
        => /\ (vresult.kind = "deps") <=> WellFormed(vconfig)
           /\ vresult.kind # "deps" => vresult.kind = "raise" /\ vresult.deps = <<>>
           /\ vresult.kind = "deps"
                 => vresult.deps = <<vconfig.vision_service.str,
                                     vconfig.camera_name.str>>

\* C6 witness: a success with confidence_value on the boundary 1 and two
\* different names, so that the order of the list shows.
C6_Witness ==
    /\ vresult.kind = "deps"
    /\ vconfig.confidence_value = NumberValue(10)
    /\ vconfig.vision_service.str # vconfig.camera_name.str
    /\ Len(vresult.deps) = 2

\* C7: after a successful reconfigure the threshold is the configured
\* confidence_value when present (0 and 1 included) and 0.8 when absent,
\* whatever threshold was held before.
C7_EffectiveThreshold ==
    [][(result'.op = "reconfigure" /\ result'.kind = "ok")
          => confidence_value' =
                IF result'.cfg.confidence_value.kind = "absent"
                THEN 8
                ELSE result'.cfg.confidence_value.num]_vars

\* C7 witness: a reconfigure that configured the boundary 0 has succeeded.
C7_Witness ==
    /\ result.op = "reconfigure" /\ result.kind = "ok"
    /\ result.cfg.confidence_value = NumberValue(0)
    /\ confidence_value = 0

\* The inputs of a reconfigure that succeeds.
ResolvableInputs ==
    {inp \in ValidConfigs \X DepSets : Resolvable(inp[1], inp[2])}

\* C8: from every state, reconfigure applied twice with the same validated
\* configuration and a dependency set holding both declared keys leaves the
\* five held values as one application does.
C8_Idempotent ==
    \A inp \in ResolvableInputs :
        LET once == reconfigure(Held, inp[1], inp[2])
            twice == reconfigure(once.self, inp[1], inp[2])
        IN  /\ once.raised = ""
            /\ twice.raised = ""
            /\ twice.self = once.self

\* C8 witness: a state just after a successful reconfigure that changed the
\* camera, in which the same call again changes nothing.
C8_Witness ==
    /\ result.op = "reconfigure" /\ result.kind = "ok"
    /\ camera_name = "vis1" /\ camera_instance = ResourceName("camera", "vis1")
    /\ \A dependencies \in DepSets :
          Resolvable(result.cfg, dependencies)
              => reconfigure(Held, result.cfg, dependencies).self = Held

\* The held values a configuration stands for.
Configured(c) ==
    State(c.camera_name.str, c.vision_service.str,
          IF c.confidence_value.kind = "absent" THEN 8 ELSE c.confidence_value.num,
          ResourceName("vision", c.vision_service.str),
          ResourceName("camera", c.camera_name.str))

\* C9: get_readings, do_command and get_geometries never change the five
\* held values, and these are always the ones the most recent reconfigure
\* set (a failed one setting none), the handles absent after a cleanup.
C9_HeldIsLastConfigured ==
    [][/\ result'.op \in {"get_readings", "do_command", "get_geometries"}
          => Held' = Held
       /\ result'.op = "cleanup"
          => Held' = [Held EXCEPT !.vision_service_instance = None,
                                  !.camera_instance = None]
       /\ (result'.op = "reconfigure" /\ result'.kind = "ok")
          => Held' = Configured(result'.cfg)
       /\ (result'.op = "reconfigure" /\ result'.kind = "raise")
          => Held' = Held]_vars

\* C10: every request on a configured instance issues one vision call of its
\* own, ends with that call's answer and only then, and its outcome is that
\* answer's failure or the reduction of that answer's detections with the
\* threshold held, whatever earlier requests returned or raised.
C10_RequestsIndependent ==
    [][/\ (result'.op = "get_readings" /\ ~inflight.pending
             /\ vision_service_instance # None)
          => /\ result' = Awaiting
             /\ inflight'.pending
             /\ inflight'.camera_name = camera_name
             /\ inflight'.handle = vision_service_instance
             /\ inflight'.timeout = 5
       /\ (result'.op = "get_readings" /\ result'.kind # "awaiting"
             /\ vision_service_instance # None)
          => inflight.pending
       /\ (inflight.pending /\ result'.op = "get_readings")
          => /\ ~inflight'.pending
             /\ \/ /\ result'.fault # ""
                   /\ result'.kind = "raise" /\ result'.err = result'.fault
                \/ /\ result'.fault = ""
                   /\ result'.kind = "reading"
                   /\ result'.reading = ReadingOf(result'.dets, confidence_value)]_vars

\* C10 witness: after an earlier request failed, a request has returned the
\* reading 1.
C10_Witness ==
    /\ failed
    /\ result.op = "get_readings" /\ result.kind = "reading"
    /\ result.reading = {<<"person_detected", 1>>}

====
